---- MODULE Spec2Model ----
(***************************************************************************)
(* Model of @ircam/sc-signal: Clipper, Lowpass, Hysteresis and Scaler.     *)
(*                                                                         *)
(* Numbers.  A JavaScript number is modelled as an extended rational       *)
(* <<n, d>> in lowest terms: d > 0 is the finite value n/d, <<1, 0>> is    *)
(* +Infinity, <<-1, 0>> is -Infinity and <<0, 0>> is NaN.  The operations  *)
(* + - * / and the comparisons follow IEEE-754 on the special values       *)
(* (Infinity * 0 = NaN, x / 0 = Infinity, NaN compares false).  Finite     *)
(* results are exact: binary64 rounding and the sign of zero are not       *)
(* modelled.  Math.exp and Math.log are computed to a fixed grid.          *)
(***************************************************************************)
EXTENDS Integers, Sequences, FiniteSets, TLC

VARIABLES unit, calls, clipper, clLast, lp, lpLast, stepN, hy, hyLast,
          sc, scLast, sc2, rt

vars == <<unit, calls, clipper, clLast, lp, lpLast, stepN, hy, hyLast,
          sc, scLast, sc2, rt>>

(***************************************************************************)
(* Bounds of the model.                                                    *)
(***************************************************************************)
\* calls made on one filter instance
MaxCalls == 5
\* calls made on the filter of the step response
MaxSteps == 6
\* Math.exp / Math.log keep GridBits binary digits after the point
GridBits == 10
\* binary digits of an exponent that Math.exp resolves
FracBits == 4

(***************************************************************************)
(* Extended rational arithmetic.                                           *)
(***************************************************************************)
Abs(i) == IF i < 0 THEN -i ELSE i

Sign(i) == IF i < 0 THEN -1 ELSE IF i > 0 THEN 1 ELSE 0

RECURSIVE Gcd(_, _)
Gcd(a, b) == IF b = 0 THEN a ELSE Gcd(b, a % b)

\* the number n/d in lowest terms, with the sign in the numerator
Num(n, d) ==
  IF d = 0 THEN <<Sign(n), 0>>
  ELSE LET g == Gcd(Abs(n), Abs(d))
           s == IF d < 0 THEN -1 ELSE 1
       IN <<(s * n) \div g, (s * d) \div g>>

Whole(i) == <<i, 1>>
Zero == Whole(0)
One == Whole(1)
PInf == <<1, 0>>
NInf == <<-1, 0>>
NaN == <<0, 0>>
\* the value of a property that was never assigned
Undefined == <<0, -1>>

IsNaN(a) == a = NaN
IsFinite(a) == a[2] > 0

Neg(a) == <<-a[1], a[2]>>

Add(a, b) ==
  IF IsNaN(a) \/ IsNaN(b) THEN NaN
  ELSE IF a[2] = 0 /\ b[2] = 0 THEN (IF a = b THEN a ELSE NaN)
  ELSE IF a[2] = 0 THEN a
  ELSE IF b[2] = 0 THEN b
  ELSE LET g == Gcd(a[2], b[2])
       IN Num(a[1] * (b[2] \div g) + b[1] * (a[2] \div g), a[2] * (b[2] \div g))

Sub(a, b) == Add(a, Neg(b))

Mul(a, b) ==
  LET x == Num(a[1], b[2])
      y == Num(b[1], a[2])
  IN IF a[2] = 0 \/ b[2] = 0 THEN Num(a[1] * b[1], a[2] * b[2])
     ELSE Num(x[1] * y[1], x[2] * y[2])

Div(a, b) == Mul(a, Num(b[2], b[1]))

Lt(a, b) ==
  /\ ~IsNaN(a)
  /\ ~IsNaN(b)
  /\ IF a[2] = 0 /\ b[2] = 0 THEN a[1] < b[1]
     ELSE IF a[2] = 0 \/ b[2] = 0 THEN a[1] * b[2] < b[1] * a[2]
     ELSE LET g == Gcd(a[2], b[2])
          IN a[1] * (b[2] \div g) < b[1] * (a[2] \div g)

Gt(a, b) == Lt(b, a)

Le(a, b) == ~IsNaN(a) /\ ~IsNaN(b) /\ ~Lt(b, a)

MathMin(a, b) ==
  IF IsNaN(a) \/ IsNaN(b) THEN NaN ELSE IF Lt(b, a) THEN b ELSE a

MathMax(a, b) ==
  IF IsNaN(a) \/ IsNaN(b) THEN NaN ELSE IF Lt(a, b) THEN b ELSE a

\* Object.assign(this, attributes): the given keys replace the object's
Assign(obj, attributes) ==
  [k \in DOMAIN obj |->
     IF k \in DOMAIN attributes THEN attributes[k] ELSE obj[k]]

\* hertzToNormalised of @ircam/sc-utils: the frequency as a fraction of
\* the Nyquist rate sampleRate / 2 (sampleRate 2 leaves it unchanged)
hertzToNormalised(frequencyHertz, sampleRate) ==
  Div(Mul(Whole(2), frequencyHertz), sampleRate)

RECURSIVE PowInt(_, _)
\* a^n for a natural n, exactly
PowInt(a, n) == IF n = 0 THEN One ELSE Mul(a, PowInt(a, n - 1))

(***************************************************************************)
(* Clipper                                                                 *)
(***************************************************************************)
ClipperBounds == {NInf, Whole(-1), Zero, One, Whole(2), PInf}
ClipperInputs == {NInf, Whole(-2), Whole(-1), Zero, Num(1, 2), One, Whole(2), Whole(3), PInf, NaN}

ClipperNew(options) ==
  Assign([min |-> NInf, max |-> PInf], options)

ClipperAttributes ==
  {[k \in D |-> f[k]] : f \in [min : ClipperBounds, max : ClipperBounds],
                        D \in SUBSET {"min", "max"}}

ClipperProcessValue_NoUpper(c, inputValue) == MathMax(c.min, inputValue)

ClipperProcessValue(c, inputValue) ==
  MathMin(c.max, MathMax(c.min, inputValue))

ClipperSet(attributes) ==
  /\ unit = "Clipper"
  /\ clipper' = Assign(clipper, attributes)
  /\ clLast' = [op |-> "set", prevOp |-> clLast.op, x |-> Undefined, out |-> Undefined]
  /\ UNCHANGED <<unit, calls, lp, lpLast, stepN, hy, hyLast, sc, scLast, sc2, rt>>

ClipperProcess(inputValue) ==
  /\ unit = "Clipper"
  /\ clLast' = [op |-> "process", prevOp |-> clLast.op, x |-> inputValue,
                out |-> ClipperProcessValue(clipper, inputValue)]
  /\ UNCHANGED <<unit, calls, clipper, lp, lpLast, stepN, hy, hyLast, sc, scLast, sc2, rt>>

\* the calls the model follows on the instance under study
CallBound == IF unit = "Step" THEN MaxSteps ELSE MaxCalls

(***************************************************************************)
(* Lowpass                                                                 *)
(***************************************************************************)
SampleRates == {One, Whole(2)}
Frequencies == {Whole(-1), Num(1, 4), Num(9, 10)}
FilterInputs == {NInf, Whole(-1), Zero, One, Whole(2), PInf}
\* the inputs of the step response
StepInputs == {Zero, One}

LowpassAttributes ==
  {[k \in D |-> f[k]] :
     f \in [sampleRate : SampleRates, lowpassFrequency : Frequencies],
     D \in SUBSET {"sampleRate", "lowpassFrequency"}}

LowpassInit_NoClamp(o) ==
  LET inputScale == hertzToNormalised(o.lowpassFrequency, o.sampleRate)
  IN [o EXCEPT !.inputScale = inputScale,
               !.feedbackScale = Sub(One, inputScale)]

LowpassInit(o) ==
  LET inputScale ==
        MathMax(Zero, MathMin(One,
          hertzToNormalised(o.lowpassFrequency, o.sampleRate)))
  IN [o EXCEPT !.inputScale = inputScale,
               !.feedbackScale = Sub(One, inputScale)]

LowpassNew(options) ==
  LowpassInit(Assign([sampleRate |-> Whole(2), lowpassFrequency |-> Num(1, 2),
                      inputScale |-> Undefined, feedbackScale |-> Undefined,
                      outputValueLast |-> Undefined], options))

LowpassSetObject_Restart(o, attributes) ==
  [LowpassInit(Assign(o, attributes)) EXCEPT !.outputValueLast = Undefined]

\* the object after set(attributes)
LowpassSetObject(o, attributes) == LowpassInit(Assign(o, attributes))

LowpassOutput_NoSeed(o, inputValue) ==
  LET last == IF o.outputValueLast = Undefined THEN Zero ELSE o.outputValueLast
  IN Add(Mul(inputValue, o.inputScale), Mul(last, o.feedbackScale))

LowpassOutput_InputFeedback(o, inputValue) ==
  Add(Mul(inputValue, o.inputScale), Mul(inputValue, o.feedbackScale))

\* the value process(inputValue) returns on object o
LowpassOutput(o, inputValue) ==
  LET outputValueLast ==
        IF o.outputValueLast = Undefined THEN inputValue ELSE o.outputValueLast
      feedback == Mul(outputValueLast, o.feedbackScale)
  IN Add(Mul(inputValue, o.inputScale), feedback)

LowpassSetStep(attributes) ==
  /\ lp' = LowpassSetObject(lp, attributes)
  /\ lpLast' = [op |-> "set", prevOp |-> lpLast.op, x |-> Undefined,
                pre |-> lp.outputValueLast, out |-> Undefined,
                setPre |-> Undefined]
  /\ stepN' = -1

LowpassProcessStep(inputValue) ==
  LET outputValue == LowpassOutput(lp, inputValue)
  IN /\ lp' = [lp EXCEPT !.outputValueLast = outputValue]
     /\ lpLast' = [op |-> "process", prevOp |-> lpLast.op, x |-> inputValue,
                   pre |-> lp.outputValueLast, out |-> outputValue,
                   setPre |-> IF lpLast.op = "set" THEN lpLast.pre
                              ELSE Undefined]
     /\ stepN' = IF lp.outputValueLast = Undefined /\ inputValue = Zero THEN 0
                 ELSE IF stepN >= 0 /\ inputValue = One THEN stepN + 1
                 ELSE -1

LowpassResetStep ==
  /\ lp' = [lp EXCEPT !.outputValueLast = Undefined]
  /\ lpLast' = [op |-> "reset", prevOp |-> lpLast.op, x |-> Undefined,
                pre |-> lp.outputValueLast, out |-> Undefined,
                setPre |-> Undefined]
  /\ stepN' = -1

LowpassSet(attributes) ==
  /\ unit = "Lowpass"
  /\ calls < CallBound
  /\ calls' = calls + 1
  /\ LowpassSetStep(attributes)
  /\ UNCHANGED <<unit, clipper, clLast, hy, hyLast, sc, scLast, sc2, rt>>

LowpassProcess(inputValue) ==
  /\ unit = "Lowpass" \/ (unit = "Step" /\ inputValue \in StepInputs)
  /\ calls < CallBound
  /\ calls' = calls + 1
  /\ LowpassProcessStep(inputValue)
  /\ UNCHANGED <<unit, clipper, clLast, hy, hyLast, sc, scLast, sc2, rt>>

LowpassReset ==
  /\ unit \in {"Lowpass", "Step"}
  /\ calls < CallBound
  /\ calls' = calls + 1
  /\ LowpassResetStep
  /\ UNCHANGED <<unit, clipper, clLast, hy, hyLast, sc, scLast, sc2, rt>>

(***************************************************************************)
(* Hysteresis                                                              *)
(***************************************************************************)
FrequenciesUp == {Whole(-1), Num(9, 10)}
FrequenciesDown == {Num(1, 4), Num(9, 10)}

HysteresisAttributes ==
  {[k \in D |-> f[k]] :
     f \in [sampleRate : SampleRates, lowpassFrequencyUp : FrequenciesUp,
            lowpassFrequencyDown : FrequenciesDown],
     D \in SUBSET {"sampleRate", "lowpassFrequencyUp", "lowpassFrequencyDown"}}

\* one {inputScale, feedbackScale} pair of init()
HysteresisPair(lowpassFrequency, sampleRate) ==
  LET inputScale ==
        MathMax(Zero, MathMin(One,
          hertzToNormalised(lowpassFrequency, sampleRate)))
  IN [inputScale |-> inputScale, feedbackScale |-> Sub(One, inputScale)]

HysteresisInit(o) ==
  [o EXCEPT !.up = HysteresisPair(o.lowpassFrequencyUp, o.sampleRate),
            !.down = HysteresisPair(o.lowpassFrequencyDown, o.sampleRate)]

HysteresisNew(options) ==
  HysteresisInit(Assign([sampleRate |-> Whole(2),
                         lowpassFrequencyUp |-> Num(1, 2),
                         lowpassFrequencyDown |-> Num(1, 2),
                         up |-> Undefined, down |-> Undefined,
                         outputValueLast |-> Undefined], options))

HysteresisSetObject(o, attributes) == HysteresisInit(Assign(o, attributes))

HysteresisDirection_OrEqual(o, inputValue) ==
  LET outputValueLast ==
        IF o.outputValueLast = Undefined THEN inputValue ELSE o.outputValueLast
  IN IF Le(outputValueLast, inputValue) THEN "up" ELSE "down"

\* the direction process(inputValue) selects on object o
HysteresisDirection(o, inputValue) ==
  LET outputValueLast ==
        IF o.outputValueLast = Undefined THEN inputValue ELSE o.outputValueLast
  IN IF Gt(inputValue, outputValueLast) THEN "up" ELSE "down"

HysteresisOutput_InputFeedback(o, inputValue) ==
  LET direction == HysteresisDirection(o, inputValue)
  IN Add(Mul(inputValue, o[direction].inputScale),
         Mul(inputValue, o[direction].feedbackScale))

\* the value process(inputValue) returns on object o
HysteresisOutput(o, inputValue) ==
  LET outputValueLast ==
        IF o.outputValueLast = Undefined THEN inputValue ELSE o.outputValueLast
      direction == HysteresisDirection(o, inputValue)
      feedback == Mul(outputValueLast, o[direction].feedbackScale)
  IN Add(Mul(inputValue, o[direction].inputScale), feedback)

HysteresisSetStep(attributes) ==
  /\ hy' = HysteresisSetObject(hy, attributes)
  /\ hyLast' = [op |-> "set", x |-> Undefined, pre |-> hy.outputValueLast,
                direction |-> "none", out |-> Undefined]

HysteresisProcessStep(inputValue) ==
  LET outputValue == HysteresisOutput(hy, inputValue)
  IN /\ hy' = [hy EXCEPT !.outputValueLast = outputValue]
     /\ hyLast' = [op |-> "process", x |-> inputValue,
                   pre |-> hy.outputValueLast,
                   direction |-> HysteresisDirection(hy, inputValue),
                   out |-> outputValue]

HysteresisResetStep ==
  /\ hy' = [hy EXCEPT !.outputValueLast = Undefined]
  /\ hyLast' = [op |-> "reset", x |-> Undefined, pre |-> hy.outputValueLast,
                direction |-> "none", out |-> Undefined]

HysteresisSet(attributes) ==
  /\ unit = "Hysteresis"
  /\ calls < MaxCalls
  /\ calls' = calls + 1
  /\ HysteresisSetStep(attributes)
  /\ UNCHANGED <<unit, clipper, clLast, lp, lpLast, stepN, sc, scLast, sc2, rt>>

HysteresisProcess(inputValue) ==
  /\ unit = "Hysteresis"
  /\ calls < MaxCalls
  /\ calls' = calls + 1
  /\ HysteresisProcessStep(inputValue)
  /\ UNCHANGED <<unit, clipper, clLast, lp, lpLast, stepN, sc, scLast, sc2, rt>>

HysteresisReset ==
  /\ unit = "Hysteresis"
  /\ calls < MaxCalls
  /\ calls' = calls + 1
  /\ HysteresisResetStep
  /\ UNCHANGED <<unit, clipper, clLast, lp, lpLast, stepN, sc, scLast, sc2, rt>>

\* a Lowpass and a Hysteresis driven by the same calls
EquivProcess(inputValue) ==
  /\ unit = "Equiv"
  /\ calls < MaxCalls
  /\ calls' = calls + 1
  /\ LowpassProcessStep(inputValue)
  /\ HysteresisProcessStep(inputValue)
  /\ UNCHANGED <<unit, clipper, clLast, sc, scLast, sc2, rt>>

EquivReset ==
  /\ unit = "Equiv"
  /\ calls < MaxCalls
  /\ calls' = calls + 1
  /\ LowpassResetStep
  /\ HysteresisResetStep
  /\ UNCHANGED <<unit, clipper, clLast, sc, scLast, sc2, rt>>

(***************************************************************************)
(* Math.exp and Math.log.  The scaler only uses them as                    *)
(* Math.exp(logBase * t) and Math.log(y) / logBase with                    *)
(* logBase = Math.log(base), that is base^t and the logarithm of y to the  *)
(* base.  Both are exact where the result is reached by integer powers and *)
(* a chain of exact square roots, and rounded down to the grid otherwise.  *)
(***************************************************************************)
Grid == 2 ^ GridBits

RECURSIVE ISqrtBetween(_, _, _)
\* the integer square root of n, given lo^2 <= n < hi^2
ISqrtBetween(n, lo, hi) ==
  IF hi - lo <= 1 THEN lo
  ELSE LET mid == (lo + hi) \div 2
       IN IF mid * mid <= n THEN ISqrtBetween(n, mid, hi)
          ELSE ISqrtBetween(n, lo, mid)

ISqrt(n) == ISqrtBetween(n, 0, IF n < 46340 THEN n + 1 ELSE 46341)

\* grid numbers are integers m standing for m / Grid
ToGrid(a) == (a[1] * Grid) \div a[2]
SqrtG(m) == ISqrt(m * Grid)
MulG(m1, m2) == (m1 * m2) \div Grid

RECURSIVE PowFracG(_, _, _)
\* root^s on the grid, for 0 <= s < 1 read to FracBits binary digits
PowFracG(root, s, i) ==
  IF i > FracBits \/ s = Zero THEN Grid
  ELSE LET r == SqrtG(root)
           twice == Mul(Whole(2), s)
       IN IF Le(One, twice) THEN MulG(r, PowFracG(r, Sub(twice, One), i + 1))
          ELSE PowFracG(r, twice, i + 1)

\* b^t for finite b > 0 and finite t
PowR(b, t) ==
  LET k == t[1] \div t[2]
      s == Sub(t, Whole(k))
      whole == IF k >= 0 THEN PowInt(b, k) ELSE PowInt(Div(One, b), -k)
  IN Mul(whole, Num(PowFracG(ToGrid(b), s, 1), Grid))

RECURSIVE LogWhole(_, _)
\* the integer k with b^k <= y < b^(k+1), for b > 1 and finite y > 0
LogWhole(b, y) ==
  IF Lt(y, One) THEN LogWhole(b, Mul(y, b)) - 1
  ELSE IF Le(b, y) THEN LogWhole(b, Div(y, b)) + 1
  ELSE 0

RECURSIVE LogFracG(_, _, _, _)
\* the largest s < 1 of FracBits binary digits with acc * root^s <= y
LogFracG(root, acc, y, i) ==
  IF i > FracBits THEN Zero
  ELSE LET r == SqrtG(root)
           next == MulG(acc, r)
           bit == Num(1, 2 ^ i)
       IN IF Le(Num(next, Grid), y) THEN Add(bit, LogFracG(r, next, y, i + 1))
          ELSE LogFracG(r, acc, y, i + 1)

\* the logarithm of y to the base b, for finite b > 1 and finite y > 0
LogUp(b, y) ==
  LET k == LogWhole(b, y)
      rest == IF k >= 0 THEN Div(y, PowInt(b, k)) ELSE Mul(y, PowInt(b, -k))
  IN Add(Whole(k), LogFracG(ToGrid(b), Grid, rest, 1))

LogR(b, y) ==
  IF Lt(One, b) THEN LogUp(b, y) ELSE LogUp(Div(One, b), Div(One, y))

\* Math.exp(Math.log(base) * t), for a finite base >= 0
MathExpTimes(base, t) ==
  IF IsNaN(t) THEN NaN
  ELSE IF base = Zero THEN
    (IF Lt(Zero, t) THEN Zero ELSE IF Lt(t, Zero) THEN PInf ELSE NaN)
  ELSE IF base = One THEN (IF IsFinite(t) THEN One ELSE NaN)
  ELSE IF ~IsFinite(t) THEN
    (IF Lt(One, base) = Lt(Zero, t) THEN PInf ELSE Zero)
  ELSE PowR(base, t)

\* Math.log(y) / Math.log(base), for a finite base >= 0
MathLogOver(base, y) ==
  IF IsNaN(y) \/ Lt(y, Zero) THEN NaN
  ELSE IF base = Zero THEN
    (IF y = Zero \/ y = PInf THEN NaN ELSE Zero)
  ELSE IF base = One THEN
    (IF y = One THEN NaN ELSE IF Lt(One, y) THEN PInf ELSE NInf)
  ELSE IF y = Zero THEN (IF Lt(One, base) THEN NInf ELSE PInf)
  ELSE IF y = PInf THEN (IF Lt(One, base) THEN PInf ELSE NInf)
  ELSE LogR(base, y)

(***************************************************************************)
(* Scaler                                                                  *)
(***************************************************************************)
ScalerPositions == {Zero, Whole(2), Whole(4)}
ScalerOutputs == {Zero, One, Whole(3)}
ScalerTypes == {"lin", "log", "exp", "linear", "logarithmic", "exponential"}
ScalerBases == {Whole(-1), Zero, Num(1, 2), One, Whole(2), Whole(4)}
ScalerInputs ==
  {NInf, Whole(-2), Zero, One, Whole(2), Whole(3), Whole(4), Whole(6), PInf}

ScalerOptions ==
  [inputStart : ScalerPositions, inputEnd : ScalerPositions,
   outputStart : ScalerOutputs, outputEnd : ScalerOutputs,
   clip : BOOLEAN, type : ScalerTypes, base : ScalerBases]

ScalerInit(o) ==
  LET type == IF o.type = "lin" THEN "linear"
              ELSE IF o.type = "log" THEN "logarithmic"
              ELSE IF o.type = "exp" THEN "exponential"
              ELSE o.type
      base == MathMax(Zero, o.base)
  IN [o EXCEPT !.type = type,
               !.base = base,
               !.inputRange = Sub(o.inputEnd, o.inputStart),
               !.outputRange = Sub(o.outputEnd, o.outputStart),
               !.inputMin = MathMin(o.inputStart, o.inputEnd),
               !.inputMax = MathMax(o.inputStart, o.inputEnd),
               !.logBase = [log |-> base]]

ScalerNew(options) ==
  ScalerInit(Assign([inputStart |-> Zero, inputEnd |-> One,
                     outputStart |-> Zero, outputEnd |-> One,
                     clip |-> FALSE, type |-> "linear", base |-> One,
                     inputRange |-> Undefined, outputRange |-> Undefined,
                     inputMin |-> Undefined, inputMax |-> Undefined,
                     logBase |-> Undefined], options))

ScalerSetObject(o, attributes) == ScalerInit(Assign(o, attributes))

\* the branch of process() that returns
ScalerBranch(o) ==
  IF o.inputRange = Zero \/ o.outputRange = Zero THEN "degenerate"
  ELSE IF o.base = One \/ o.type = "linear" THEN "linear"
  ELSE IF o.type = "logarithmic" THEN "logarithmic"
  ELSE "exponential"

ScalerInput_NoClip(o, inputValue) == inputValue

\* the input after the optional clipping
ScalerInput(o, inputValue) ==
  IF o.clip THEN MathMax(o.inputMin, MathMin(o.inputMax, inputValue))
  ELSE inputValue

ScalerDegenerate_Strict(o, inputValue) ==
  IF Lt(inputValue, o.inputMin) THEN o.outputStart ELSE o.outputEnd

ScalerDegenerate(o, inputValue) ==
  IF Le(inputValue, o.inputMin) THEN o.outputStart ELSE o.outputEnd

ScalerLinear_FromMin(o, input) ==
  Add(o.outputStart,
      Div(Mul(o.outputRange, Sub(input, o.inputMin)), o.inputRange))

ScalerLinear(o, input) ==
  Add(o.outputStart,
      Div(Mul(o.outputRange, Sub(input, o.inputStart)), o.inputRange))

ScalerLogarithmic(o, input) ==
  Add(o.outputStart,
      Mul(o.outputRange,
          MathLogOver(o.logBase.log,
            Add(Div(Mul(Sub(o.base, One), Sub(input, o.inputStart)),
                    o.inputRange), One))))

ScalerExponential(o, input) ==
  Add(o.outputStart,
      Div(Mul(o.outputRange,
              Sub(MathExpTimes(o.logBase.log,
                    Div(Sub(input, o.inputStart), o.inputRange)), One)),
          Sub(o.base, One)))

\* the value process(inputValue) returns on object o
ScalerProcessValue(o, inputValue) ==
  LET branch == ScalerBranch(o)
      input == ScalerInput(o, inputValue)
  IN IF branch = "degenerate" THEN ScalerDegenerate(o, inputValue)
     ELSE IF branch = "linear" THEN ScalerLinear(o, input)
     ELSE IF branch = "logarithmic" THEN ScalerLogarithmic(o, input)
     ELSE ScalerExponential(o, input)

ScalerKeySets ==
  {{}, {"inputStart"}, {"inputEnd"}, {"outputStart"}, {"outputEnd"},
   {"clip"}, {"type"}, {"base"}, {"inputStart", "inputEnd"},
   {"outputStart", "outputEnd"}, {"type", "base"}}

ScalerAttributes ==
  {[k \in D |-> f[k]] : f \in ScalerOptions, D \in ScalerKeySets}

ScalerSet(attributes) ==
  /\ unit = "Scaler"
  /\ sc' = ScalerSetObject(sc, attributes)
  /\ scLast' = [op |-> "set", x |-> Undefined, branch |-> "none",
                input |-> Undefined, out |-> Undefined]
  /\ UNCHANGED <<unit, calls, clipper, clLast, lp, lpLast, stepN, hy, hyLast,
                 sc2, rt>>

ScalerProcess(inputValue) ==
  /\ unit = "Scaler"
  /\ scLast' = [op |-> "process", x |-> inputValue,
                branch |-> ScalerBranch(sc),
                input |-> IF ScalerBranch(sc) = "degenerate" THEN Undefined
                          ELSE ScalerInput(sc, inputValue),
                out |-> ScalerProcessValue(sc, inputValue)]
  /\ UNCHANGED <<unit, calls, clipper, clLast, lp, lpLast, stepN, hy, hyLast,
                 sc, sc2, rt>>

\* the options of the scaler that maps the other way
ScalerSwapped(options) ==
  [options EXCEPT !.inputStart = options.outputStart,
                  !.inputEnd = options.outputEnd,
                  !.outputStart = options.inputStart,
                  !.outputEnd = options.inputEnd]

\* sc maps A to B, sc2 maps B to A: process(x) on sc, then on sc2
RoundTripProcess(inputValue) ==
  /\ unit = "RoundTrip"
  /\ Le(sc.inputMin, inputValue)
  /\ Le(inputValue, sc.inputMax)
  /\ LET y == ScalerProcessValue(sc, inputValue)
     IN rt' = [op |-> "process", x |-> inputValue, y |-> y,
               z |-> ScalerProcessValue(sc2, y)]
  /\ UNCHANGED <<unit, calls, clipper, clLast, lp, lpLast, stepN, hy, hyLast,
                 sc, scLast, sc2>>

(***************************************************************************)
(* Initial states: the instance under study is constructed with any        *)
(* options, the other instances with the defaults.                         *)
(***************************************************************************)
NoOptions == <<>>

NewLast == [op |-> "new", prevOp |-> "new", x |-> Undefined, pre |-> Undefined,
            out |-> Undefined, setPre |-> Undefined]

InitClipper(options) ==
  /\ clipper = ClipperNew(options)
  /\ clLast = [op |-> "new", prevOp |-> "new", x |-> Undefined, out |-> Undefined]

InitLowpass(options) ==
  /\ lp = LowpassNew(options)
  /\ lpLast = NewLast
  /\ stepN = -1

InitHysteresis(options) ==
  /\ hy = HysteresisNew(options)
  /\ hyLast = [op |-> "new", x |-> Undefined, pre |-> Undefined,
               direction |-> "none", out |-> Undefined]

InitScaler(options) ==
  /\ sc = ScalerNew(options)
  /\ scLast = [op |-> "new", x |-> Undefined, branch |-> "none",
               input |-> Undefined, out |-> Undefined]

InitRoundTrip(options) ==
  /\ sc2 = ScalerNew(options)
  /\ rt = [op |-> "new", x |-> Undefined, y |-> Undefined, z |-> Undefined]

InitOf(u, co, lo, ho, so, ro) ==
  /\ unit = u
  /\ calls = 0
  /\ InitClipper(co)
  /\ InitLowpass(lo)
  /\ InitHysteresis(ho)
  /\ InitScaler(so)
  /\ InitRoundTrip(ro)

ClipperInit ==
  \E o \in ClipperAttributes :
    InitOf("Clipper", o, NoOptions, NoOptions, NoOptions, NoOptions)

LowpassUnitInit ==
  \E o \in LowpassAttributes :
    InitOf("Lowpass", NoOptions, o, NoOptions, NoOptions, NoOptions)

StepInit ==
  \E o \in LowpassAttributes :
    InitOf("Step", NoOptions, o, NoOptions, NoOptions, NoOptions)

HysteresisUnitInit ==
  \E o \in HysteresisAttributes :
    InitOf("Hysteresis", NoOptions, NoOptions, o, NoOptions, NoOptions)

EquivInit ==
  \E lo \in LowpassAttributes, ho \in HysteresisAttributes :
    /\ InitOf("Equiv", NoOptions, lo, ho, NoOptions, NoOptions)
    /\ hy.up = hy.down
    /\ hy.up.inputScale = lp.inputScale

ScalerUnitInit ==
  \E o \in ScalerAttributes :
    InitOf("Scaler", NoOptions, NoOptions, NoOptions, o, NoOptions)

RoundTripInit ==
  \E o \in ScalerOptions :
    InitOf("RoundTrip", NoOptions, NoOptions, NoOptions, o, ScalerSwapped(o))

ClipperNext ==
  \/ \E attributes \in ClipperAttributes : ClipperSet(attributes)
  \/ \E inputValue \in ClipperInputs : ClipperProcess(inputValue)

LowpassNext ==
  \/ \E attributes \in LowpassAttributes : LowpassSet(attributes)
  \/ \E inputValue \in FilterInputs : LowpassProcess(inputValue)
  \/ LowpassReset

StepNext ==
  \/ \E inputValue \in StepInputs : LowpassProcess(inputValue)
  \/ LowpassReset

HysteresisNext ==
  \/ \E attributes \in HysteresisAttributes : HysteresisSet(attributes)
  \/ \E inputValue \in FilterInputs : HysteresisProcess(inputValue)
  \/ HysteresisReset

EquivNext ==
  \/ \E inputValue \in FilterInputs : EquivProcess(inputValue)
  \/ EquivReset

ScalerNext ==
  \/ \E attributes \in ScalerAttributes : ScalerSet(attributes)
  \/ \E inputValue \in ScalerInputs : ScalerProcess(inputValue)

RoundTripNext ==
  \E inputValue \in ScalerInputs : RoundTripProcess(inputValue)

Init ==
  \/ ClipperInit
  \/ LowpassUnitInit
  \/ StepInit
  \/ HysteresisUnitInit
  \/ EquivInit
  \/ ScalerUnitInit
  \/ RoundTripInit

Next ==
  \/ ClipperNext
  \/ LowpassNext
  \/ StepNext
  \/ HysteresisNext
  \/ EquivNext
  \/ ScalerNext
  \/ RoundTripNext

Spec == Init /\ [][Next]_vars
SpecClipper == ClipperInit /\ [][ClipperNext]_vars
SpecLowpass == LowpassUnitInit /\ [][LowpassNext]_vars
SpecStep == StepInit /\ [][StepNext]_vars
SpecHysteresis == HysteresisUnitInit /\ [][HysteresisNext]_vars
SpecFilters ==
  (LowpassUnitInit \/ HysteresisUnitInit) /\ [][LowpassNext \/ HysteresisNext]_vars
SpecEquiv == EquivInit /\ [][EquivNext]_vars
SpecScaler == ScalerUnitInit /\ [][ScalerNext]_vars
SpecRoundTrip == RoundTripInit /\ [][RoundTripNext]_vars

(***************************************************************************)
(* Claims                                                                  *)
(***************************************************************************)
InOpenUnit(a) == Lt(Zero, a) /\ Lt(a, One)

\* C1 as stated: the first process(v) after construction or reset returns
\* exactly v and leaves outputValueLast equal to v, whatever v and the
\* coefficients are; reset() leaves outputValueLast unset.
C1_FirstProcessReturnsAnyInput ==
  /\ (lpLast.op = "process" /\ lpLast.pre = Undefined)
       => (lpLast.out = lpLast.x /\ lp.outputValueLast = lpLast.x)
  /\ (hyLast.op = "process" /\ hyLast.pre = Undefined)
       => (hyLast.out = hyLast.x /\ hy.outputValueLast = hyLast.x)
  /\ lpLast.op = "reset" => lp.outputValueLast = Undefined
  /\ hyLast.op = "reset" => hy.outputValueLast = Undefined

\* C1 amended: the first process(v) after construction or reset returns
\* exactly v and leaves outputValueLast equal to v when v is finite, or when
\* v is infinite and the coefficient in use (Lowpass inputScale, Hysteresis
\* down.inputScale) is strictly between 0 and 1; reset() always leaves
\* outputValueLast unset.
C1_FirstProcessReturnsFiniteInput ==
  /\ (/\ lpLast.op = "process"
      /\ lpLast.pre = Undefined
      /\ (IsFinite(lpLast.x) \/ InOpenUnit(lp.inputScale)))
       => (lpLast.out = lpLast.x /\ lp.outputValueLast = lpLast.x)
  /\ (/\ hyLast.op = "process"
      /\ hyLast.pre = Undefined
      /\ (IsFinite(hyLast.x) \/ InOpenUnit(hy.down.inputScale)))
       => (hyLast.out = hyLast.x /\ hy.outputValueLast = hyLast.x)
  /\ lpLast.op = "reset" => lp.outputValueLast = Undefined
  /\ hyLast.op = "reset" => hy.outputValueLast = Undefined

\* a Lowpass with coefficient 9/10 that was reset and then processed 2
C1_Witness ==
  /\ lpLast.op = "process"
  /\ lpLast.prevOp = "reset"
  /\ lpLast.pre = Undefined
  /\ lpLast.x = Whole(2)
  /\ lp.inputScale = Num(9, 10)
  /\ lp.outputValueLast = Whole(2)

\* C2: Lowpass.set recomputes inputScale and feedbackScale from the
\* attributes and leaves outputValueLast as it was (unset stays unset); the
\* process(x) that follows a set on a running filter returns
\* x * inputScale_new + outputValueLast_old * feedbackScale_new.
C2_SetKeepsOutputValueLast ==
  /\ lpLast.op = "set" =>
       /\ lp.outputValueLast = lpLast.pre
       /\ lp.inputScale =
            MathMax(Zero, MathMin(One,
              hertzToNormalised(lp.lowpassFrequency, lp.sampleRate)))
       /\ lp.feedbackScale = Sub(One, lp.inputScale)
  /\ (lpLast.op = "process" /\ lpLast.prevOp = "set") =>
       /\ lpLast.pre = lpLast.setPre
       /\ lpLast.setPre # Undefined =>
            lpLast.out = Add(Mul(lpLast.x, lp.inputScale),
                             Mul(lpLast.setPre, lp.feedbackScale))

\* a running filter holding 2 gets set to coefficient 1/4 and processes 0
C2_Witness ==
  /\ lpLast.op = "process"
  /\ lpLast.prevOp = "set"
  /\ lpLast.setPre = Whole(2)
  /\ lpLast.x = Zero
  /\ lp.inputScale = Num(1, 4)
  /\ lpLast.out = Num(3, 2)

\* C3: on a running Hysteresis, process(input) uses the up pair iff input is
\* strictly greater than outputValueLast and the down pair otherwise; it
\* returns input * inputScale + outputValueLast * feedbackScale of that pair,
\* with the outputValueLast held before the call, and stores the result.
C3_DirectionSelection ==
  (hyLast.op = "process" /\ hyLast.pre # Undefined) =>
    LET direction == IF Gt(hyLast.x, hyLast.pre) THEN "up" ELSE "down"
    IN /\ hyLast.direction = direction
       /\ hyLast.out = Add(Mul(hyLast.x, hy[direction].inputScale),
                           Mul(hyLast.pre, hy[direction].feedbackScale))
       /\ hy.outputValueLast = hyLast.out

\* a running filter with different pairs processes its own last output
C3_Witness ==
  /\ hyLast.op = "process"
  /\ hyLast.pre = One
  /\ hyLast.x = One
  /\ hy.up # hy.down
  /\ hyLast.direction = "down"

\* C4: after process(0) on a fresh or reset Lowpass with inputScale in
\* (0, 1], the n-th following process(1) returns at least the previous
\* output, at most 1, and exactly 1 - (1 - inputScale)^n.
C4_StepResponse ==
  (stepN >= 1 /\ Lt(Zero, lp.inputScale) /\ Le(lp.inputScale, One)) =>
    /\ Le(lpLast.pre, lpLast.out)
    /\ Le(lpLast.out, One)
    /\ lpLast.out = Sub(One, PowInt(Sub(One, lp.inputScale), stepN))

\* the documented example: coefficient 9/10, third process(1) gives 0.999
C4_Witness ==
  /\ stepN = 3
  /\ lp.inputScale = Num(9, 10)
  /\ lpLast.out = Num(999, 1000)

\* C5: with min <= max and a finite input x, Clipper.process(x) lies in
\* [min, max] and equals x when min <= x <= max, with the min and max in
\* force after any set.
C5_ClipperRange ==
  (/\ clLast.op = "process"
   /\ Le(clipper.min, clipper.max)
   /\ IsFinite(clLast.x)) =>
    /\ Le(clipper.min, clLast.out)
    /\ Le(clLast.out, clipper.max)
    /\ (Le(clipper.min, clLast.x) /\ Le(clLast.x, clipper.max))
         => clLast.out = clLast.x

\* a set to [0, 1] followed by process(2), which returns 1
C5_Witness ==
  /\ clLast.op = "process"
  /\ clLast.prevOp = "set"
  /\ clipper.min = Zero
  /\ clipper.max = One
  /\ clLast.x = Whole(2)
  /\ clLast.out = One

UnitPair(p) ==
  /\ Le(Zero, p.inputScale)
  /\ Le(p.inputScale, One)
  /\ Add(p.inputScale, p.feedbackScale) = One

\* a call that is a process or a reset leaves the coefficients alone
CoefficientsKept ==
  /\ (lpLast'.op \in {"process", "reset"}) =>
       (lp'.inputScale = lp.inputScale /\ lp'.feedbackScale = lp.feedbackScale)
  /\ (hyLast'.op \in {"process", "reset"}) =>
       (hy'.up = hy.up /\ hy'.down = hy.down)

\* C6: in every state Lowpass.inputScale, Hysteresis.up.inputScale and
\* Hysteresis.down.inputScale lie in [0, 1] and each sums to 1 with its
\* feedbackScale; a process or reset call changes no coefficient.
C6_Coefficients ==
  /\ [](UnitPair(lp) /\ UnitPair(hy.up) /\ UnitPair(hy.down))
  /\ [][CoefficientsKept]_vars

\* a frequency above Nyquist was set, clamped to 1, and process was called
C6_Witness ==
  /\ lpLast.op = "process"
  /\ lpLast.prevOp = "set"
  /\ Lt(One, hertzToNormalised(lp.lowpassFrequency, lp.sampleRate))
  /\ lp.inputScale = One
  /\ lp.feedbackScale = Zero

\* C7: when inputRange or outputRange is 0, Scaler.process(x) takes the
\* degenerate branch (no division) and returns outputStart for
\* x <= inputMin and outputEnd for every other x, whatever clip, type and
\* base are.
C7_DegenerateRange ==
  (scLast.op = "process" /\ (sc.inputRange = Zero \/ sc.outputRange = Zero)) =>
    /\ scLast.branch = "degenerate"
    /\ scLast.out = IF Le(scLast.x, sc.inputMin) THEN sc.outputStart
                    ELSE sc.outputEnd

\* a clipping exponential scaler of zero input width, asked at inputMin
C7_Witness ==
  /\ scLast.op = "process"
  /\ sc.inputRange = Zero
  /\ sc.outputRange # Zero
  /\ sc.clip
  /\ sc.type = "exponential"
  /\ sc.base = Whole(2)
  /\ scLast.x = sc.inputMin
  /\ scLast.out = sc.outputStart

\* C8 as stated: a scaler A -> B followed by the scaler B -> A of the same
\* type and base returns the original input, for every input inside A.
C8_RoundTripAnyType ==
  rt.op = "process" => rt.z = rt.x

\* C8 amended: the round trip returns the original input when both scalers
\* map linearly (type linear or base 1) and neither A nor B has zero width.
C8_RoundTripLinear ==
  (/\ rt.op = "process"
   /\ ScalerBranch(sc) = "linear"
   /\ ScalerBranch(sc2) = "linear") => rt.z = rt.x

\* an inverted input interval, an interior input, a linear round trip
C8_Witness ==
  /\ rt.op = "process"
  /\ ScalerBranch(sc) = "linear"
  /\ ScalerBranch(sc2) = "linear"
  /\ Lt(sc.inputEnd, sc.inputStart)
  /\ Lt(sc.inputMin, rt.x)
  /\ Lt(rt.x, sc.inputMax)
  /\ rt.y # rt.x
  /\ rt.z = rt.x

C10_HysteresisEqualsLowpass ==
  (hy.up = hy.down /\ hy.up.inputScale = lp.inputScale) =>
    /\ hyLast.op = lpLast.op
    /\ hyLast.out = lpLast.out
    /\ hy.outputValueLast = lp.outputValueLast

\* both filters, running, were given a rising input
C10_Witness ==
  /\ lpLast.op = "process"
  /\ hyLast.op = "process"
  /\ lpLast.pre = Num(1, 2)
  /\ lpLast.x = Whole(2)
  /\ hyLast.direction = "up"
  /\ hyLast.out = lpLast.out
  /\ InOpenUnit(lp.inputScale)

====
